---- MODULE Spec2Model ----
(***************************************************************************)
(* file-vault: content-addressed deduplication, reference counting, quota  *)
(* and storage statistics of files/views.py and files/models.py.           *)
(*                                                                         *)
(* The database tables are the variables files, metadata and stats; the    *)
(* upload directory is blobs.  Every request handler is cut into steps at  *)
(* its database statements (Django runs in autocommit, the handlers open   *)
(* no transaction and take no lock), and every request keeps the model     *)
(* instances it has loaded in loc, as the Python objects do.  Spec lets    *)
(* the uploads and deletes of NumProcs workers interleave; SpecSeq runs    *)
(* one request at a time.                                                  *)
(***************************************************************************)
EXTENDS Integers, FiniteSets, Sequences, TLC

\* ------------------------------------------------------------------ bounds
NumProcs == 2
NumUsers == 2
NumRacers == 1
NumContents == 2
MaxFiles == 3
MaxMotif == 3
MaxCandidates == 12

Procs == 1..NumProcs
Users == 1..NumUsers
\* the owners whose requests run concurrently in Spec
Racers == 1..NumRacers
Contents == 1..NumContents

\* --------------------------------------------------------------- constants
STORAGE_QUOTA_MB == 10
STORAGE_QUOTA_BYTES == STORAGE_QUOTA_MB * 1024 * 1024

\* ------------------------------------------------------------------ inputs
\* The uploaded byte strings.  Content 1 fills the quota exactly, content 2
\* is a single byte, content 3 is half the quota, content 4 two bytes, ...
SizeOf(c) ==
    IF c % 2 = 1 THEN STORAGE_QUOTA_BYTES \div ((c + 1) \div 2) ELSE c \div 2

\* File.calculate_file_hash: SHA-256 of the chunks, one digest per content.
calculate_file_hash(c) == 1000 + c

\* ------------------------------------------------------------------ state
VARIABLES
    files,      \* table uploaded_files: id -> row
    nextId,     \* the next primary key (ids are handed out in upload order)
    blobs,      \* the paths that exist in the upload directory
    metadata,   \* table file_metadata: file id -> row
    stats,      \* table storage_stats: user -> row
    removed,    \* history: how often os.remove ran on each path
    pc,         \* each worker's position in its handler
    loc         \* each worker's Python locals

vars == <<files, nextId, blobs, metadata, stats, removed, pc, loc>>

NullFile ==
    [id |-> 0, user_id |-> 0, file_hash |-> 0, size |-> 0, file |-> 0,
     is_reference |-> FALSE, original_file |-> 0, reference_count |-> 0,
     ai_processed |-> FALSE, ai_processing_failed |-> FALSE]

ZeroStats == [original_storage_used |-> 0, total_storage_used |-> 0, file_count |-> 0]

Ids == DOMAIN files

\* ----------------------------------------------------------------- queries
RECURSIVE SumSizes(_)
SumSizes(rows) ==
    IF rows = {} THEN 0
    ELSE LET r == CHOOSE x \in rows : TRUE IN r.size + SumSizes(rows \ {r})

Max(a, b) == IF a >= b THEN a ELSE b

\* File.objects.filter(user_id=u)
FilesOf(u) == {files[i] : i \in {j \in Ids : files[j].user_id = u}}

\* File.objects.filter(file_hash=h, user_id=u, is_reference=False)
Canonicals(h, u) ==
    {i \in Ids : /\ files[i].file_hash = h
                 /\ files[i].user_id = u
                 /\ ~files[i].is_reference}

\* .first() under Meta.ordering = ['-uploaded_at']: the latest upload.
First(ids) == IF ids = {} THEN 0 ELSE CHOOSE i \in ids : \A j \in ids : j <= i

\* faulty variant: the lookup without user_id=user_id
ExistingFileOfAnyOwner(h, u) ==
    LET i == First({j \in Ids : files[j].file_hash = h /\ ~files[j].is_reference})
    IN  IF i = 0 THEN NullFile ELSE files[i]

\* faulty variant: the lookup without is_reference=False
ExistingFileOfAnyKind(h, u) ==
    LET i == First({j \in Ids : files[j].file_hash = h /\ files[j].user_id = u})
    IN  IF i = 0 THEN NullFile ELSE files[i]

ExistingFile(h, u) ==
    LET i == First(Canonicals(h, u)) IN IF i = 0 THEN NullFile ELSE files[i]


\* ----------------------------------------------------------- row operations
\* Model.save(): UPDATE the row by primary key, INSERT it when no row was
\* updated.  The INSERT of a reference fails on its foreign key when the
\* original is gone.
SaveOk(row) == row.id \in Ids \/ row.original_file = 0 \/ row.original_file \in Ids

Saved(row) ==
    IF row.id \in Ids THEN [files EXCEPT ![row.id] = row] ELSE files @@ (row.id :> row)

\* Model.delete() with on_delete=CASCADE on original_file and on
\* FileMetadata.file: the row, the references to it and their metadata go.
\* faulty variant: the references to the same original go with the row
CascadeWithSiblings(i) ==
    {i} \cup {j \in Ids : files[j].original_file \in {i, files[i].original_file}}

Cascade(i) == {i} \cup {j \in Ids : files[j].original_file = i}

\* faulty variant: every caller passes the owner check
IsOwnerAlways(instance, u) == TRUE

\* views.py:217: instance.user_id != user_id is refused.
IsOwner(instance, u) == instance.user_id = u

Restrict(f, gone) == [k \in (DOMAIN f) \ gone |-> f[k]]

increment_reference_count(rc) == rc + 1

\* faulty variant: the count is saved as it was read
decrement_reference_count_kept(rc) == rc

decrement_reference_count(rc) == Max(0, rc - 1)

\* faulty variant: an upload that reaches the quota exactly is rejected
QuotaReached(used, file_size) == used + file_size >= STORAGE_QUOTA_BYTES

\* views.py:158
QuotaExceeded(used, file_size) == used + file_size > STORAGE_QUOTA_BYTES

\* StorageStats.update_stats, the three values it computes from one read
original_storage_used(u) == SumSizes(FilesOf(u))

\* faulty variant: the references are counted as physical storage
total_storage_used_with_references(u) == SumSizes(FilesOf(u))

total_storage_used(u) == SumSizes({f \in FilesOf(u) : ~f.is_reference})

\* faulty variant: only the canonical files are counted
file_count_of_canonicals(u) == Cardinality({f \in FilesOf(u) : ~f.is_reference})

file_count(u) == Cardinality(FilesOf(u))

update_stats(u) ==
    [original_storage_used |-> original_storage_used(u),
     total_storage_used |-> total_storage_used(u),
     file_count |-> file_count(u)]

\* StorageStats.storage_savings
storage_savings(s) == s.original_storage_used - s.total_storage_used

\* n decimal digits of r / b for 0 <= r < b, by long division
RECURSIVE Digits(_, _, _)
Digits(r, b, n) ==
    IF n = 0 THEN 0
    ELSE LET d == (r * 10) \div b
             rest == (r * 10) % b
         IN  d * (10 ^ (n - 1)) + Digits(rest, b, n - 1)

\* StorageStats.savings_percentage: round(savings / original * 100, 2), here
\* in hundredths of a percent (5000 is 50.0).
savings_percentage(s) ==
    IF s.original_storage_used = 0 THEN 0
    ELSE LET sv == storage_savings(s)
             o == s.original_storage_used
             whole == sv \div o
             frac == Digits(sv % o, o, 5)
         IN  whole * 10000 + (frac + 5) \div 10

\* ---------------------------------------------------------- AIFileProcessor
\* Strings whose text no line of the code reads are modelled by their length
\* (a summary, an exception's message), lists and dicts by their number of
\* entries (tags, entities, key_info); a confidence is in hundredths.
CATEGORIES ==
    {"Work Documents", "Personal Documents", "Financial Documents",
     "Legal Documents", "Medical Records", "Receipts & Invoices",
     "Contracts & Agreements", "Educational Materials", "Creative Content",
     "Technical Documentation", "Travel Documents", "Tax Documents",
     "Property Documents", "Insurance Documents", "Other"}

None == <<>>

Min(a, b) == IF a <= b THEN a ELSE b

\* dict.get(key, default)
Get(d, key, default) == IF key \in DOMAIN d THEN d[key] ELSE default

Number(x) == [type |-> "number", value |-> x]

\* a JSON string of n characters that is no number
String(n) == [type |-> "string", value |-> n]

\* faulty variant: the fallback keeps the default confidence of a validated
\* answer
get_default_metadata_half(reason) ==
    [category |-> "Other", subcategory |-> "", summary |-> reason, tags |-> 0,
     entities |-> 0, key_info |-> 0, confidence_score |-> 50, embedding |-> None]

\* ai_service.py:319-329; "File processed without AI analysis" has 34
\* characters.  The dict has no 'embedding' key.
get_default_metadata(reason) ==
    [category |-> "Other",
     subcategory |-> "",
     summary |-> IF reason # 0 THEN reason ELSE 34,
     tags |-> 0,
     entities |-> 0,
     key_info |-> 0,
     confidence_score |-> 0,
     embedding |-> None]

Returned(value) == [raised |-> FALSE, value |-> value, message |-> 0]

\* an exception whose str() has the given number of characters
Raised(message) == [raised |-> TRUE, value |-> None, message |-> message]

\* float(x): a number as it is (no range is imposed), a string that is no
\* number raises ValueError("could not convert string to float: '...'").
Float(x) == IF x.type = "number" THEN Returned(x.value) ELSE Raised(35 + x.value + 2)

\* ai_service.py:301-317
validate_metadata(answer) ==
    LET category == Get(answer, "category", "Other")
        confidence_score == Float(Get(answer, "confidence_score", Number(50)))
    IN  IF confidence_score.raised THEN confidence_score
        ELSE Returned(
            [category |-> IF category \notin CATEGORIES THEN "Other" ELSE category,
             subcategory |-> Get(answer, "subcategory", ""),
             summary |-> Min(Get(answer, "summary", 0), 500),
             tags |-> Min(Get(answer, "tags", 0), 10),
             entities |-> Get(answer, "entities", 0),
             key_info |-> Get(answer, "key_info", 0),
             confidence_score |-> confidence_score.value,
             embedding |-> None])

\* ai_service.py:92-113: extraction gives the text of the file ("text"), the
\* marker of an image ("image"), "" when the extractor failed ("empty") or
\* None for the other file types ("none").
\* ai_service.py:157-221 and 223-299: one call of the model; its reply is a
\* JSON object ("json"), something json.loads or the validation rejects
\* ("garbage"), or the call raises, a timeout included ("error").  Every
\* exception becomes the default metadata, "Analysis failed: " (17 characters)
\* or "Image analysis failed: " (23) before its message.
analyze_with_claude(env) ==
    LET prefix == IF env.extract = "image" THEN 23 ELSE 17
        result == IF env.reply = "json" THEN validate_metadata(env.answer)
                  ELSE Raised(env.message)
    IN  IF result.raised THEN get_default_metadata(prefix + result.message)
        ELSE result.value

\* SentenceTransformer.encode, a vector for a text: the summary of GoodAnswer
\* lies at cosine 0.9 of the query text of 12 characters, a summary cut at
\* 500 characters at 0.1, every other text at 0.2.
encode(text) ==
    CASE text = 12 -> <<1, 0, 0, 0>>
      [] text = 120 -> <<9, 3, 3, 1>>
      [] text = 500 -> <<1, 7, 7, 1>>
      [] OTHER -> <<2, 8, 4, 4>>

\* faulty variant: an embedding for whatever text is given
compute_embedding_always(env, text) == encode(text)

\* ai_service.py:55-65: None without a model, for an empty text, and when
\* encode raises.
compute_embedding(env, text) ==
    IF ~env.embedder \/ text = 0 \/ ~env.encodes THEN None ELSE encode(text)

\* ai_service.py:67-90; "Unable to extract content from file" has 35
\* characters.
process_file(env) ==
    IF env.extract \in {"empty", "none"} THEN get_default_metadata(35)
    ELSE LET analysis == analyze_with_claude(env) IN
         IF analysis.summary # 0
         THEN [analysis EXCEPT !.embedding = compute_embedding(env, analysis.summary)]
         ELSE analysis

\* FileMetadata.objects.create of views.py:185-194 and tasks.py:69-78: the
\* seven fields passed; embedding is not among them and keeps its null.
FileMetadataOf(d) == [d EXCEPT !.embedding = None]

\* faulty variant: the copy is made without the tags
CopyOfWithoutTags(row) == [row EXCEPT !.embedding = None, !.tags = 0]

\* views.py:139-148 and tasks.py:40-49: the seven fields of the original's row.
CopyOf(row) == [row EXCEPT !.embedding = None]

\* no metadata row read
NullMetadata == [category |-> ""]

\* What one run of the enrichment meets: fault is an exception outside
\* process_file (the constructor of the processor, file.path, the INSERT's
\* own checks), the rest is what extraction, the model and the embedding
\* model do (embedder: the model was loaded; encodes: its encode returns),
\* and the number of characters of the exception's message.
Environment(extract, reply, answer, message) ==
    [fault |-> FALSE, extract |-> extract, reply |-> reply, answer |-> answer,
     message |-> message, embedder |-> TRUE, encodes |-> TRUE]

\* an answer as the prompt asks for it
GoodAnswer ==
    [category |-> "Work Documents", subcategory |-> "Report", summary |-> 120,
     tags |-> 3, entities |-> 2, key_info |-> 1, confidence_score |-> Number(85)]

\* an answer beyond every limit of the prompt
LongAnswer ==
    [category |-> "Recipes", subcategory |-> "", summary |-> 501, tags |-> 11,
     entities |-> 0, key_info |-> 0, confidence_score |-> Number(150)]

\* an answer whose confidence is a sentence of 600 characters
WordyAnswer == [GoodAnswer EXCEPT !.confidence_score = String(600)]

Good == Environment("text", "json", GoodAnswer, 0)

\* no run of the processor
NullEnvironment == Environment("", "", [summary |-> 0], 0)

Fault == [Good EXCEPT !.fault = TRUE]

\* the environments of the specifications that do not look into metadata
BasicEnvironments == {Good, Fault}

\* json.loads fails with "Expecting value: line 1 column 1 (char 0)" (41
\* characters), a timeout with "Request timed out." (18).
Environments ==
    BasicEnvironments \cup
        {Environment("none", "json", GoodAnswer, 0),
         Environment("text", "json", LongAnswer, 0),
         Environment("text", "json", WordyAnswer, 0),
         Environment("text", "garbage", GoodAnswer, 41),
         Environment("text", "error", GoodAnswer, 18)}

\* ------------------------------------------------------------------- Init
\* the locals of a worker between two requests
IdleLoc ==
    [op |-> "none", user |-> 0, content |-> 0, existing_file |-> NullFile,
     instance |-> NullFile, stats |-> ZeroStats, status |-> "none",
     original_metadata |-> NullMetadata, batch |-> <<>>, env |-> NullEnvironment,
     query |-> 0, user_files_metadata |-> <<>>, results |-> <<>>]

Init ==
    /\ files = <<>>
    /\ nextId = 1
    /\ blobs = {}
    /\ metadata = <<>>
    /\ stats = [u \in Users |-> ZeroStats]
    /\ removed = [b \in 1..MaxFiles |-> 0]
    /\ pc = [p \in Procs |-> "idle"]
    /\ loc = [p \in Procs |-> IdleLoc]

Goto(p, label) == pc' = [pc EXCEPT ![p] = label]

\* The response: the status, with the request (its owner, its upload) and the
\* instance it was about (the new_file an upload serializes, the instance a
\* delete loaded).  The locals no later line reads are dropped.
Response(l, status) ==
    [IdleLoc EXCEPT !.op = l.op, !.user = l.user, !.content = l.content,
                    !.instance = l.instance, !.status = status]

Respond(p, status) ==
    /\ pc' = [pc EXCEPT ![p] = "done"]
    /\ loc' = [loc EXCEPT ![p] = Response(loc[p], status)]

\* Requests that have still to insert their File row.
Pending == {q \in Procs : pc[q] \in {"create_reference", "create_quota", "create_file"}}

\* ------------------------------------------------- FileViewSet.create
\* views.py:123-125: hash the upload, look the canonical file up.
CreateLookup(p, u, c) ==
    /\ pc[p] = "idle"
    /\ nextId + Cardinality(Pending) <= MaxFiles
    /\ LET existing == ExistingFile(calculate_file_hash(c), u) IN
        /\ loc' = [loc EXCEPT ![p] = [IdleLoc EXCEPT !.op = "create", !.user = u,
                                         !.content = c, !.existing_file = existing]]
        /\ Goto(p, IF existing.id # 0 THEN "create_reference" ELSE "create_quota")
    /\ UNCHANGED <<files, nextId, blobs, metadata, stats, removed>>

\* views.py:127-136: INSERT the reference row, sharing the original's path.
CreateReference(p) ==
    /\ pc[p] = "create_reference"
    /\ LET e == loc[p].existing_file
           new_file == [NullFile EXCEPT
                            !.id = nextId,
                            !.user_id = loc[p].user,
                            !.file_hash = calculate_file_hash(loc[p].content),
                            !.size = SizeOf(loc[p].content),
                            !.file = e.file,
                            !.is_reference = TRUE,
                            !.original_file = e.id]
       IN IF e.id \in Ids
          THEN /\ files' = Saved(new_file)
               /\ nextId' = nextId + 1
               /\ loc' = [loc EXCEPT ![p].instance = new_file]
               /\ Goto(p, "create_increment")
          ELSE \* IntegrityError: the original was deleted since the lookup
               /\ Respond(p, "ServerError")
               /\ UNCHANGED <<files, nextId>>
    /\ UNCHANGED <<blobs, metadata, stats, removed>>

\* views.py:137, models.py:53-55: add one to the count read at the lookup
\* and UPDATE it (save(update_fields=...) raises when no row is updated).
CreateIncrement(p) ==
    /\ pc[p] = "create_increment"
    /\ LET e == loc[p].existing_file
           rc == increment_reference_count(e.reference_count)
       IN IF e.id \in Ids
          THEN /\ files' = [files EXCEPT ![e.id].reference_count = rc]
               /\ loc' = [loc EXCEPT ![p].existing_file.reference_count = rc]
               /\ Goto(p, "create_copy_metadata")
          ELSE /\ Respond(p, "ServerError")
               /\ UNCHANGED files
    /\ UNCHANGED <<nextId, blobs, metadata, stats, removed>>

\* views.py:138-149: copy the original's metadata row, if it has one.
CreateCopyMetadata(p) ==
    /\ pc[p] = "create_copy_metadata"
    /\ LET e == loc[p].existing_file
           n == loc[p].instance
       IN IF e.id \in DOMAIN metadata
          THEN IF n.id \in Ids /\ n.id \notin DOMAIN metadata
               THEN /\ metadata' = metadata @@ (n.id :> CopyOf(metadata[e.id]))
                    /\ Goto(p, "create_reference_save")
                    /\ UNCHANGED loc
               ELSE /\ Respond(p, "ServerError")
                    /\ UNCHANGED metadata
          ELSE /\ Goto(p, "stats_read")
               /\ UNCHANGED <<metadata, loc>>
    /\ UNCHANGED <<files, nextId, blobs, stats, removed>>

\* views.py:150-152: mark the reference processed and save() the whole row.
CreateReferenceSave(p) ==
    /\ pc[p] = "create_reference_save"
    /\ LET n == [loc[p].instance EXCEPT !.ai_processed = TRUE] IN
       IF SaveOk(n)
       THEN /\ files' = Saved(n)
            /\ loc' = [loc EXCEPT ![p].instance = n]
            /\ Goto(p, "stats_read")
       ELSE /\ Respond(p, "ServerError")
            /\ UNCHANGED files
    /\ UNCHANGED <<nextId, blobs, metadata, stats, removed>>

\* views.py:157-159: read the owner's stats row and check the quota.
CreateQuota(p) ==
    /\ pc[p] = "create_quota"
    /\ IF QuotaExceeded(stats[loc[p].user].total_storage_used, SizeOf(loc[p].content))
       THEN Respond(p, "QuotaExceeded")
       ELSE /\ Goto(p, "create_file")
            /\ UNCHANGED loc
    /\ UNCHANGED <<files, nextId, blobs, metadata, stats, removed>>

\* views.py:160-169: store the upload under a fresh path, INSERT the row.
CreateFile(p) ==
    /\ pc[p] = "create_file"
    /\ LET new_file == [NullFile EXCEPT
                            !.id = nextId,
                            !.user_id = loc[p].user,
                            !.file_hash = calculate_file_hash(loc[p].content),
                            !.size = SizeOf(loc[p].content),
                            !.file = nextId]
       IN /\ files' = Saved(new_file)
          /\ blobs' = blobs \cup {new_file.file}
          /\ nextId' = nextId + 1
          /\ loc' = [loc EXCEPT ![p].instance = new_file]
    /\ Goto(p, "stats_read")
    /\ UNCHANGED <<metadata, stats, removed>>


\* views.py:175-194: run the processor and INSERT the FileMetadata row.  The
\* INSERT raises when the row's file is gone or already has metadata; every
\* exception of the block lands in the except branch.  env keeps what the
\* run met.
CreateEnrich(p, E) ==
    /\ pc[p] = "create_enrich"
    /\ \E env \in E :
        LET n == loc[p].instance IN
        /\ loc' = [loc EXCEPT ![p].env = env]
        /\ IF ~env.fault /\ n.id \in Ids /\ n.id \notin DOMAIN metadata
           THEN /\ metadata' = metadata @@ (n.id :> FileMetadataOf(process_file(env)))
                /\ Goto(p, "create_processed")
           ELSE /\ Goto(p, "create_failed")
                /\ UNCHANGED metadata
    /\ UNCHANGED <<files, nextId, blobs, stats, removed>>

\* views.py:196-198: set ai_processed and save() the whole row.
CreateProcessed(p) ==
    /\ pc[p] = "create_processed"
    /\ LET n == [loc[p].instance EXCEPT !.ai_processed = TRUE] IN
        /\ files' = Saved(n)
        /\ loc' = [loc EXCEPT ![p] = Response([loc[p] EXCEPT !.instance = n], "Created")]
    /\ Goto(p, "done")
    /\ UNCHANGED <<nextId, blobs, metadata, stats, removed>>

\* faulty variant: the except branch marks the file processed
MarkedProcessed(file_obj) == [file_obj EXCEPT !.ai_processed = TRUE]

\* faulty variant: the except branch sets both flags
MarkedFailedAndProcessed(file_obj) ==
    [file_obj EXCEPT !.ai_processing_failed = TRUE, !.ai_processed = TRUE]

\* views.py:201, tasks.py:94
MarkedFailed(file_obj) == [file_obj EXCEPT !.ai_processing_failed = TRUE]

\* views.py:199-202: set ai_processing_failed and save() the whole row.
CreateFailed(p) ==
    /\ pc[p] = "create_failed"
    /\ LET n == MarkedFailed(loc[p].instance) IN
        /\ files' = Saved(n)
        /\ loc' = [loc EXCEPT ![p] = Response([loc[p] EXCEPT !.instance = n], "Created")]
    /\ Goto(p, "done")
    /\ UNCHANGED <<nextId, blobs, metadata, stats, removed>>

\* ------------------------------------------------ StorageStats.update_stats
\* models.py:124-127: one SELECT of the owner's files, three values from it.
StatsRead(p) ==
    /\ pc[p] = "stats_read"
    /\ loc' = [loc EXCEPT ![p].stats = update_stats(loc[p].user)]
    /\ Goto(p, "stats_save")
    /\ UNCHANGED <<files, nextId, blobs, metadata, stats, removed>>

\* models.py:128: save() the stats row; then views.py:170-175, 204-206,
\* 232-235 and 255-256, what the handler does next.
StatsSave(p) ==
    /\ pc[p] = "stats_save"
    /\ stats' = [stats EXCEPT ![loc[p].user] = loc[p].stats]
    /\ IF loc[p].op = "create" /\ ~loc[p].instance.is_reference
       THEN /\ Goto(p, "create_enrich")
            /\ UNCHANGED loc
       ELSE Respond(p, CASE loc[p].op = "create" -> "Created"
                         [] loc[p].op = "destroy" -> "NoContent"
                         [] OTHER -> "Ok")
    /\ UNCHANGED <<files, nextId, blobs, metadata, removed>>

\* ------------------------------------------------ FileViewSet.destroy
\* views.py:213-227: load the row, check the caller, and for an original
\* check the reference count of the loaded instance.
DestroyLoad(p, u, i) ==
    /\ pc[p] = "idle"
    /\ i \in Ids
    /\ LET instance == files[i]
           l == [IdleLoc EXCEPT !.op = "destroy", !.user = u, !.instance = instance]
       IN IF ~IsOwner(instance, u)
          THEN /\ loc' = [loc EXCEPT ![p] = Response(l, "Unauthorized")]
               /\ Goto(p, "done")
          ELSE IF instance.is_reference
          THEN /\ loc' = [loc EXCEPT ![p] = l]
               /\ Goto(p, "destroy_original")
          ELSE IF instance.reference_count > 0
          THEN /\ loc' = [loc EXCEPT ![p] = Response(l, "ReferencedFileError")]
               /\ Goto(p, "done")
          ELSE /\ loc' = [loc EXCEPT ![p] = l]
               /\ Goto(p, "destroy_blob")
    /\ UNCHANGED <<files, nextId, blobs, metadata, stats, removed>>

\* views.py:220: instance.original_file, a SELECT of the original's row.
DestroyOriginal(p) ==
    /\ pc[p] = "destroy_original"
    /\ LET o == loc[p].instance.original_file IN
       IF o \in Ids
       THEN /\ loc' = [loc EXCEPT ![p].existing_file = files[o]]
            /\ Goto(p, "destroy_decrement")
       ELSE Respond(p, "ServerError")
    /\ UNCHANGED <<files, nextId, blobs, metadata, stats, removed>>

\* views.py:220, models.py:57-59: take one off the count just read, floor 0,
\* and UPDATE it.
DestroyDecrement(p) ==
    /\ pc[p] = "destroy_decrement"
    /\ LET e == loc[p].existing_file
           rc == decrement_reference_count(e.reference_count)
       IN IF e.id \in Ids
          THEN /\ files' = [files EXCEPT ![e.id].reference_count = rc]
               /\ loc' = [loc EXCEPT ![p].existing_file.reference_count = rc]
               /\ Goto(p, "destroy_delete")
          ELSE /\ Respond(p, "ServerError")
               /\ UNCHANGED files
    /\ UNCHANGED <<nextId, blobs, metadata, stats, removed>>

\* views.py:229-230: remove the original's blob if it is on disk.
DestroyBlob(p) ==
    /\ pc[p] = "destroy_blob"
    /\ LET path == loc[p].instance.file IN
       IF path \in blobs
       THEN /\ blobs' = blobs \ {path}
            /\ removed' = [removed EXCEPT ![path] = @ + 1]
       ELSE UNCHANGED <<blobs, removed>>
    /\ Goto(p, "destroy_delete")
    /\ UNCHANGED <<files, nextId, metadata, stats, loc>>

\* views.py:221 and 231: instance.delete(), cascading.
DestroyDelete(p) ==
    /\ pc[p] = "destroy_delete"
    /\ LET gone == IF loc[p].instance.id \in Ids THEN Cascade(loc[p].instance.id) ELSE {}
       IN /\ files' = Restrict(files, gone)
          /\ metadata' = Restrict(metadata, gone)
    /\ Goto(p, "stats_read")
    /\ UNCHANGED <<nextId, blobs, stats, removed, loc>>

\* ------------------------------------------------ FileViewSet.storage_stats
\* views.py:245-253: recompute the caller's stats.
StorageStats(p, u) ==
    /\ pc[p] = "idle"
    /\ loc' = [loc EXCEPT ![p] = [IdleLoc EXCEPT !.op = "storage_stats", !.user = u]]
    /\ Goto(p, "stats_read")
    /\ UNCHANGED <<files, nextId, blobs, metadata, stats, removed>>

\* The response leaves; the worker takes the next request.
Return(p) ==
    /\ pc[p] = "done"
    /\ pc' = [pc EXCEPT ![p] = "idle"]
    /\ loc' = [loc EXCEPT ![p] = IdleLoc]
    /\ UNCHANGED <<files, nextId, blobs, metadata, stats, removed>>

\* ------------------------------------------------ tasks.process_file_with_ai
\* faulty variant: the task does not look at ai_processed
AlreadyProcessedNever(file_obj) == FALSE

\* tasks.py:31
AlreadyProcessed(file_obj) == file_obj.ai_processed

\* The end of one run of the task: the return to its caller, which is the
\* loop of the sweep (tasks.py:113-118) or the one who asked for the run.
Finish(p, l, status) ==
    IF l.op = "batch_process_unprocessed_files"
    THEN /\ loc' = [loc EXCEPT ![p] = [Response(l, status) EXCEPT !.batch = l.batch]]
         /\ Goto(p, "sweep_next")
    ELSE /\ loc' = [loc EXCEPT ![p] = Response(l, status)]
         /\ Goto(p, "done")

\* tasks.py:28-37: get the file; return when it is gone or processed; for a
\* reference whose original has a metadata row go on to copy that row, for
\* every other file go on to the processor.
Load(p, l, i) ==
    IF i \notin Ids THEN Finish(p, l, "DoesNotExist")
    ELSE LET file_obj == files[i]
             o == file_obj.original_file
             m == [l EXCEPT !.instance = file_obj]
         IN  IF AlreadyProcessed(file_obj) THEN Finish(p, m, "Skipped")
             ELSE IF file_obj.is_reference /\ o # 0 /\ o \notin Ids
             THEN Finish(p, m, "DoesNotExist")
             ELSE IF file_obj.is_reference /\ o # 0 /\ o \in DOMAIN metadata
             THEN /\ loc' = [loc EXCEPT ![p] =
                                [m EXCEPT !.original_metadata = metadata[o]]]
                  /\ Goto(p, "task_copy")
             ELSE /\ loc' = [loc EXCEPT ![p] = m]
                  /\ Goto(p, "task_enrich")

\* process_file_with_ai(file_id), asked for by itself: the explicit
\* re-processing of a file.
TaskLoad(p, i) ==
    /\ pc[p] = "idle"
    /\ Load(p, [IdleLoc EXCEPT !.op = "process_file_with_ai"], i)
    /\ UNCHANGED <<files, nextId, blobs, metadata, stats, removed>>

\* tasks.py:40-49: INSERT the copy of the original's metadata row.
TaskCopy(p) ==
    /\ pc[p] = "task_copy"
    /\ LET n == loc[p].instance IN
       IF n.id \in Ids /\ n.id \notin DOMAIN metadata
       THEN /\ metadata' = metadata @@ (n.id :> CopyOf(loc[p].original_metadata))
            /\ Goto(p, "task_processed")
       ELSE /\ Goto(p, "task_failed")
            /\ UNCHANGED metadata
    /\ UNCHANGED <<files, nextId, blobs, stats, removed, loc>>

\* tasks.py:57-78: run the processor on the file and INSERT the metadata row.
TaskEnrich(p, E) ==
    /\ pc[p] = "task_enrich"
    /\ \E env \in E :
        LET n == loc[p].instance IN
        /\ loc' = [loc EXCEPT ![p].env = env]
        /\ IF ~env.fault /\ n.id \in Ids /\ n.id \notin DOMAIN metadata
           THEN /\ metadata' = metadata @@ (n.id :> FileMetadataOf(process_file(env)))
                /\ Goto(p, "task_processed")
           ELSE /\ Goto(p, "task_failed")
                /\ UNCHANGED metadata
    /\ UNCHANGED <<files, nextId, blobs, stats, removed>>

\* tasks.py:50-54 and 81-85: set ai_processed and save() the whole row.
TaskProcessed(p) ==
    /\ pc[p] = "task_processed"
    /\ LET n == [loc[p].instance EXCEPT !.ai_processed = TRUE] IN
       IF SaveOk(n)
       THEN /\ files' = Saved(n)
            /\ Finish(p, [loc[p] EXCEPT !.instance = n], "Processed")
       ELSE /\ Goto(p, "task_failed")
            /\ UNCHANGED <<files, loc>>
    /\ UNCHANGED <<nextId, blobs, metadata, stats, removed>>

\* tasks.py:89-97: get the file again, set ai_processing_failed, save(); a
\* file that is gone is passed over.
TaskFailed(p) ==
    /\ pc[p] = "task_failed"
    /\ LET i == loc[p].instance.id IN
       IF i \in Ids
       THEN LET n == MarkedFailed(files[i]) IN
            /\ files' = Saved(n)
            /\ Finish(p, [loc[p] EXCEPT !.instance = n], "Failed")
       ELSE /\ Finish(p, loc[p], "Failed")
            /\ UNCHANGED files
    /\ UNCHANGED <<nextId, blobs, metadata, stats, removed>>

\* ------------------------------------ tasks.batch_process_unprocessed_files
\* tasks.py:100: the default of limit
DEFAULT_LIMIT == 10

Limits == {1, DEFAULT_LIMIT}

\* the ids in the order of Meta.ordering = ['-uploaded_at'], latest first
RECURSIVE Ordered(_)
Ordered(ids) ==
    IF ids = {} THEN <<>> ELSE <<First(ids)>> \o Ordered(ids \ {First(ids)})

\* faulty variant: the filter lets the failed files through
UnprocessedOrFailed(user_id, limit) ==
    LET query == {i \in Ids :
                     /\ ~files[i].ai_processed
                     /\ (user_id # 0 => files[i].user_id = user_id)}
    IN  SubSeq(Ordered(query), 1, Min(limit, Cardinality(query)))

\* tasks.py:105-110: the files neither processed nor failed, of one owner
\* when user_id is given (0 is None), cut at limit.
Unprocessed(user_id, limit) ==
    LET query == {i \in Ids :
                     /\ ~files[i].ai_processed
                     /\ ~files[i].ai_processing_failed
                     /\ (user_id # 0 => files[i].user_id = user_id)}
    IN  SubSeq(Ordered(query), 1, Min(limit, Cardinality(query)))

\* tasks.py:105-113: the query runs once, when the loop starts; nothing
\* reads user_id and limit after it.
SweepQuery(p, user_id, limit) ==
    /\ pc[p] = "idle"
    /\ loc' = [loc EXCEPT ![p] =
                  [IdleLoc EXCEPT !.op = "batch_process_unprocessed_files",
                                  !.batch = Unprocessed(user_id, limit)]]
    /\ Goto(p, "sweep_next")
    /\ UNCHANGED <<files, nextId, blobs, metadata, stats, removed>>

\* tasks.py:113-121: the next file of the loop goes through the task.
SweepNext(p) ==
    /\ pc[p] = "sweep_next"
    /\ LET l == [IdleLoc EXCEPT !.op = loc[p].op] IN
       IF loc[p].batch = <<>>
       THEN /\ loc' = [loc EXCEPT ![p] = Response(l, "Swept")]
            /\ Goto(p, "done")
       ELSE Load(p, [l EXCEPT !.batch = Tail(loc[p].batch)], Head(loc[p].batch))
    /\ UNCHANGED <<files, nextId, blobs, metadata, stats, removed>>

\* One step of worker p on a run of the task or of the sweep.
TaskStep(p, U, E) ==
    \/ \E i \in 1..MaxFiles : TaskLoad(p, i)
    \/ TaskCopy(p)
    \/ TaskEnrich(p, E)
    \/ TaskProcessed(p)
    \/ TaskFailed(p)
    \/ \E u \in U \cup {0}, limit \in Limits : SweepQuery(p, u, limit)
    \/ SweepNext(p)

\* --------------------------------------------- AIFileProcessor.semantic_search
\* a . b
RECURSIVE Dot(_, _)
Dot(a, b) == IF a = <<>> THEN 0 ELSE Head(a) * Head(b) + Dot(Tail(a), Tail(b))

\* |a|, for the vectors whose length is a whole number
Norm(a) == CHOOSE r \in 0..Dot(a, a) : r * r = Dot(a, a)

\* sklearn's cosine_similarity of two vectors, in hundredths
cosine_similarity(a, b) == (100 * Dot(a, b)) \div (Norm(a) * Norm(b))

\* faulty variant: a score on the threshold is dropped
RelevantStrictly(score) == score > 30

\* ai_service.py:363
Relevant(score) == score >= 30

\* results with x put behind the last result whose score is not below x's
Insert(x, results) ==
    LET k == Cardinality({j \in 1..Len(results) :
                             results[j].relevance_score >= x.relevance_score})
    IN  SubSeq(results, 1, k) \o <<x>> \o SubSeq(results, k + 1, Len(results))

\* list.sort(key=relevance_score, reverse=True): by falling score, results
\* of one score in the order they had
RECURSIVE Sorted(_)
Sorted(results) ==
    IF results = <<>> THEN <<>>
    ELSE LET before == Sorted(SubSeq(results, 1, Len(results) - 1))
         IN  Insert(results[Len(results)], before)

\* ai_service.py:359-369: the scored results, in the order of the files
RECURSIVE Scored(_, _)
Scored(query_embedding, files_with_embeddings) ==
    IF files_with_embeddings = <<>> THEN <<>>
    ELSE LET file_data == Head(files_with_embeddings)
             score == cosine_similarity(query_embedding, file_data.embedding)
             rest == Scored(query_embedding, Tail(files_with_embeddings))
         IN  IF Relevant(score)
             THEN <<[file_id |-> file_data.file_id, relevance_score |-> score]>> \o rest
             ELSE rest

\* ai_service.py:331-376; the reason of a result, a text made of its score, is
\* left out.
semantic_search(env, query, user_files_metadata) ==
    IF user_files_metadata = <<>> \/ ~env.embedder THEN <<>>
    ELSE LET query_embedding == compute_embedding(env, query)
             files_with_embeddings ==
                 SelectSeq(user_files_metadata,
                           LAMBDA f : Get(f, "embedding", None) # None)
             results == Sorted(Scored(query_embedding, files_with_embeddings))
         IN  IF query_embedding = None \/ files_with_embeddings = <<>> THEN <<>>
             ELSE SubSeq(results, 1, Min(10, Len(results)))

\* ------------------------------------------------ FileViewSet.smart_search
\* views.py:357-366: one dict for each file that has a metadata row, in the
\* order of the queryset; the dicts have no 'embedding'.
RECURSIVE files_data(_)
files_data(ids) ==
    IF ids = <<>> THEN <<>>
    ELSE LET i == Head(ids) IN
         (IF i \in DOMAIN metadata
          THEN <<[file_id |-> i,
                  category |-> metadata[i].category,
                  summary |-> metadata[i].summary,
                  tags |-> metadata[i].tags]>>
          ELSE <<>>) \o files_data(Tail(ids))

\* views.py:380-399: the files of the results that exist, in the order of the
\* results, each with its score
RECURSIVE Found(_)
Found(results) ==
    IF results = <<>> THEN <<>>
    ELSE (IF Head(results).file_id \in Ids THEN <<Head(results)>> ELSE <<>>)
             \o Found(Tail(results))

\* views.py:326-401: the handler reads and writes nothing; a query of no
\* characters is refused, an exception of the processor's constructor is a
\* server error, and no file, no candidate and no result all give an empty
\* list.
SmartSearch(p, u, env, query) ==
    /\ pc[p] = "idle"
    /\ LET files_with_metadata ==
               Ordered({i \in Ids : files[i].user_id = u /\ files[i].ai_processed})
           l == [IdleLoc EXCEPT !.op = "smart_search", !.user = u,
                                !.env = env, !.query = query]
       IN  loc' = [loc EXCEPT ![p] =
               IF query = 0 THEN [l EXCEPT !.status = "BadRequest"]
               ELSE IF files_with_metadata = <<>> THEN [l EXCEPT !.status = "Ok"]
               ELSE IF env.fault
               THEN [l EXCEPT !.status = "ServerError",
                              !.user_files_metadata = files_data(files_with_metadata)]
               ELSE [l EXCEPT !.status = "Ok",
                              !.user_files_metadata = files_data(files_with_metadata),
                              !.results = Found(semantic_search(env, query,
                                              files_data(files_with_metadata)))]]
    /\ Goto(p, "done")
    /\ UNCHANGED <<files, nextId, blobs, metadata, stats, removed>>

\* ------------------------------------------ semantic_search on given lists
\* the embeddings of the candidates: at cosine 0.9, 0.6, 0.3 and 0.2 of the
\* query's, or none
Embeddings == {<<9, 3, 3, 1>>, <<6, 8, 0, 0>>, <<3, 9, 3, 1>>, <<2, 8, 4, 4>>, None}

\* the query texts: none, and one of 12 characters
Queries == {0, 12}

\* a candidate list of n files: file k has the embedding motif[k], the motif
\* starting over at its end
Candidates(motif, n) ==
    [k \in 1..n |-> [file_id |-> k,
                     embedding |-> motif[((k - 1) % Len(motif)) + 1]]]

Motifs == UNION {[1..m -> Embeddings] : m \in 1..MaxMotif}

\* the embedding model: loaded and encoding, loaded and raising, not loaded
Embedders == {<<TRUE, TRUE>>, <<TRUE, FALSE>>, <<FALSE, TRUE>>}

\* AIFileProcessor().semantic_search(query, user_files_metadata), called
\* with a list of its caller's making.
SemanticSearch(p) ==
    /\ pc[p] = "idle"
    /\ \E model \in Embedders, query \in Queries, motif \in Motifs,
          n \in 0..MaxCandidates :
        LET env == [Good EXCEPT !.embedder = model[1], !.encodes = model[2]]
            candidates == Candidates(motif, n)
        IN  loc' = [loc EXCEPT ![p] =
                       [IdleLoc EXCEPT !.op = "semantic_search",
                                       !.env = env,
                                       !.query = query,
                                       !.user_files_metadata = candidates,
                                       !.results = semantic_search(env, query, candidates),
                                       !.status = "Ok"]]
    /\ Goto(p, "done")
    /\ UNCHANGED <<files, nextId, blobs, metadata, stats, removed>>

\* ------------------------------------------------------------------ Next
\* One step of worker p on an upload or a delete, serving the owners in U.
Step(p, U, E) ==
    \/ \E u \in U, c \in Contents : CreateLookup(p, u, c)
    \/ CreateReference(p)
    \/ CreateIncrement(p)
    \/ CreateCopyMetadata(p)
    \/ CreateReferenceSave(p)
    \/ CreateQuota(p)
    \/ CreateFile(p)
    \/ CreateEnrich(p, E)
    \/ CreateProcessed(p)
    \/ CreateFailed(p)
    \/ StatsRead(p)
    \/ StatsSave(p)
    \/ \E u \in U, i \in 1..MaxFiles : DestroyLoad(p, u, i)
    \/ DestroyOriginal(p)
    \/ DestroyDecrement(p)
    \/ DestroyBlob(p)
    \/ DestroyDelete(p)
    \/ Return(p)

\* The uploads and deletes of the workers interleave at their database
\* statements.
Next == \E p \in Procs : Step(p, Racers, BasicEnvironments)

Spec == Init /\ [][Next]_vars

\* One request at a time, of any owner and of any kind: a single worker.
NextSeq ==
    \/ Step(1, Users, BasicEnvironments)
    \/ \E u \in Users : StorageStats(1, u)

SpecSeq == Init /\ [][NextSeq]_vars


\* ================================================================== claims
Quiescent == \A p \in Procs : pc[p] = "idle"

\* the files of owner u with the bytes of content c
Copies(u, c) ==
    {i \in Ids : files[i].user_id = u /\ files[i].file_hash = calculate_file_hash(c)}

\* the reference files whose referenceTarget is file i
ReferencesTo(i) == {j \in Ids : files[j].is_reference /\ files[j].original_file = i}

\* C1: after any sequence of uploads and deletes run one at a time, every
\* (owner, content hash) that has a file has exactly one canonical file, and
\* every other file of the pair is a reference to that canonical file.
C1_OneCanonicalPerContent ==
    Quiescent =>
        \A u \in Users, c \in Contents :
            Copies(u, c) # {} =>
                \E k \in Copies(u, c) :
                    /\ ~files[k].is_reference
                    /\ \A j \in Copies(u, c) \ {k} :
                        files[j].is_reference /\ files[j].original_file = k

\* C1 witness: three uploads and a delete have run, and a canonical file and
\* a reference to it are left.
C1_Witness ==
    /\ Quiescent
    /\ nextId = MaxFiles + 1
    /\ Cardinality(Ids) = 2
    /\ \E k \in Ids : ~files[k].is_reference /\ ReferencesTo(k) # {}

\* C2: two concurrent uploads of the same bytes by one owner never both
\* become canonical: a pair (owner, content hash) has at most one
\* non-reference file.
C2_AtMostOneCanonical ==
    \A u \in Users, c \in Contents :
        Cardinality({i \in Copies(u, c) : ~files[i].is_reference}) <= 1

\* C3: whenever no request is in progress, the reference_count of every
\* canonical file is the number of reference files that point to it.
C3_ReferenceCountExact ==
    Quiescent =>
        \A i \in Ids :
            ~files[i].is_reference =>
                files[i].reference_count = Cardinality(ReferencesTo(i))

\* C4: in every state, the canonical record and the blob of every reference
\* file exist.
C4_ReferencedBlobExists ==
    \A j \in Ids :
        files[j].is_reference =>
            /\ files[j].original_file \in Ids
            /\ files[files[j].original_file].file \in blobs


\* the tables and the upload directory
db == <<files, blobs, metadata, stats, removed>>

\* the sum of size over the files with the given ids
RECURSIVE Bytes(_)
Bytes(ids) ==
    IF ids = {} THEN 0
    ELSE LET i == CHOOSE x \in ids : TRUE IN files[i].size + Bytes(ids \ {i})

OwnedBy(u) == {i \in Ids : files[i].user_id = u}

LogicalBytes(u) == Bytes(OwnedBy(u))

PhysicalBytes(u) == Bytes({i \in OwnedBy(u) : ~files[i].is_reference})

ReferenceBytes(u) == Bytes({i \in OwnedBy(u) : files[i].is_reference})

\* worker p takes up a delete of file i, asked by the file's owner
StartsDelete(p, i) ==
    /\ pc[p] = "idle"
    /\ pc'[p] # "idle"
    /\ loc'[p].op = "destroy"
    /\ loc'[p].instance.id = i
    /\ loc'[p].user = files[i].user_id

C5_Refusal ==
    \A p \in Procs :
        /\ \A i \in Ids :
            StartsDelete(p, i) /\ ~files[i].is_reference =>
                /\ files[i].reference_count > 0 =>
                    /\ pc'[p] = "done"
                    /\ loc'[p].status = "ReferencedFileError"
                    /\ UNCHANGED db
                /\ ReferencesTo(i) = {} => pc'[p] = "destroy_blob"
        /\ pc[p] = "done" /\ loc[p].status = "ReferencedFileError" => UNCHANGED db

C5_Released ==
    /\ \A b \in DOMAIN removed : removed[b] <= 1
    /\ \A p \in Procs :
        /\ pc[p] = "done"
        /\ loc[p].op = "destroy"
        /\ loc[p].status = "NoContent"
        /\ ~loc[p].instance.is_reference
        => /\ loc[p].instance.id \notin Ids
           /\ loc[p].instance.file \notin blobs
           /\ removed[loc[p].instance.file] = 1

\* C5: with requests run one at a time, the delete of a canonical file whose
\* reference_count is above 0 is refused with ReferencedFileError and changes
\* no record, blob or count; the delete of a canonical file that no reference
\* points to goes ahead, and when it has answered the record is gone and the
\* blob has been removed exactly once.
C5_DeleteCanonical == [][C5_Refusal]_vars /\ []C5_Released

\* C5 witness: file 1, canonical, has been deleted after its reference, file
\* 2, was (no blob was ever removed for file 2).
C5_Witness ==
    \E p \in Procs :
        /\ pc[p] = "done"
        /\ loc[p].op = "destroy"
        /\ loc[p].status = "NoContent"
        /\ loc[p].instance.id = 1
        /\ Ids = {}
        /\ nextId = 3
        /\ removed[1] = 1
        /\ removed[2] = 0

C6_Quota ==
    \A p \in Procs :
        /\ pc[p] = "create_quota" /\ pc'[p] # "create_quota" =>
            IF PhysicalBytes(loc[p].user) + SizeOf(loc[p].content) > STORAGE_QUOTA_BYTES
            THEN /\ pc'[p] = "done"
                 /\ loc'[p].status = "QuotaExceeded"
                 /\ UNCHANGED db
            ELSE pc'[p] = "create_file"
        /\ pc[p] = "done" /\ loc[p].status = "QuotaExceeded" => UNCHANGED <<db, nextId>>

\* C6: with requests run one at a time, an upload of content the owner has no
\* canonical file of is rejected with QuotaExceeded exactly when the owner's
\* physical bytes plus the upload's size are strictly above the quota, and a
\* rejected upload changes no file, blob or metadata.
C6_QuotaExceeded == [][C6_Quota]_vars

\* C6 witness: the owner's physical bytes are exactly the quota and a one-byte
\* upload of other content has been rejected.
C6_Witness ==
    \E p \in Procs :
        /\ pc[p] = "done"
        /\ loc[p].op = "create"
        /\ loc[p].status = "QuotaExceeded"
        /\ SizeOf(loc[p].content) = 1
        /\ PhysicalBytes(loc[p].user) = STORAGE_QUOTA_BYTES

\* C7: in every state, the physical (non-reference) bytes of every owner are
\* at most the quota.
C7_PhysicalBytesWithinQuota ==
    \A u \in Users : PhysicalBytes(u) <= STORAGE_QUOTA_BYTES

HasCanonical(u, c) == \E k \in Copies(u, c) : ~files[k].is_reference

C8_Steps ==
    \A p \in Procs :
        /\ \A u \in Users, c \in Contents :
            /\ pc[p] = "idle"
            /\ pc'[p] # "idle"
            /\ loc'[p].op = "create"
            /\ loc'[p].user = u
            /\ loc'[p].content = c
            /\ HasCanonical(u, c)
            => pc'[p] = "create_reference"
        /\ /\ pc[p] = "stats_save"
           /\ pc'[p] # "stats_save"
           /\ loc[p].op = "create"
           /\ loc[p].instance.is_reference
           => LET u == loc[p].user IN
               /\ stats'[u].total_storage_used = stats[u].total_storage_used
               /\ stats'[u].original_storage_used =
                      stats[u].original_storage_used + SizeOf(loc[p].content)

C8_Answer ==
    /\ \A p \in Procs :
        pc[p] = "done" /\ loc[p].op = "create" =>
            \/ /\ loc[p].status = "QuotaExceeded"
               /\ ~HasCanonical(loc[p].user, loc[p].content)
            \/ /\ loc[p].status = "Created"
               /\ loc[p].instance.id \in Ids
               /\ LET n == files[loc[p].instance.id] IN
                   n.is_reference =>
                       /\ n.original_file \in Ids
                       /\ ~files[n.original_file].is_reference
                       /\ n.size = files[n.original_file].size
    /\ \A u \in Users, c \in Contents :
        /\ Quiescent
        /\ OwnedBy(u) = Copies(u, c)
        /\ Cardinality(OwnedBy(u)) = 2
        => savings_percentage(stats[u]) = 5000

\* C8: with requests run one at a time, an upload of bytes the owner has a
\* canonical file of never consults the quota and is answered Created; the new
\* file is a reference of the canonical file's size; the recount that follows
\* leaves total_storage_used as it was and adds the size to
\* original_storage_used; and an owner whose files are two copies of the same
\* bytes has savings_percentage 50.
C8_DuplicateUpload == [][C8_Steps]_vars /\ []C8_Answer

\* C8 witness: a duplicate upload has been answered while the owner's physical
\* bytes fill the quota, and the savings are 50 percent.
C8_Witness ==
    \E p \in Procs :
        /\ pc[p] = "done"
        /\ loc[p].op = "create"
        /\ loc[p].status = "Created"
        /\ loc[p].instance.is_reference
        /\ stats[loc[p].user].total_storage_used = STORAGE_QUOTA_BYTES
        /\ savings_percentage(stats[loc[p].user]) = 5000

C9_Recount ==
    \A p \in Procs :
        pc[p] = "stats_save" /\ pc'[p] # "stats_save" =>
            LET u == loc[p].user
                s == stats'[u]
            IN  /\ s.original_storage_used = LogicalBytes(u)'
                /\ s.total_storage_used = PhysicalBytes(u)'
                /\ s.file_count = Cardinality(OwnedBy(u))'
                /\ storage_savings(s) = ReferenceBytes(u)'
                /\ s.original_storage_used = 0 => savings_percentage(s) = 0

\* C9: with requests run one at a time, right after update_stats has saved an
\* owner's row, original_storage_used is the sum of size over all the owner's
\* files, total_storage_used the sum over the non-reference files, file_count
\* the number of files, their difference the sum over the reference files,
\* and savings_percentage is 0 when original_storage_used is 0.
C9_RecountIsExact == [][C9_Recount]_vars

\* C9 witness: storage_stats has recounted an owner who has a reference file.
C9_Witness ==
    \E p \in Procs :
        /\ pc[p] = "done"
        /\ loc[p].op = "storage_stats"
        /\ ReferenceBytes(loc[p].user) > 0
        /\ storage_savings(stats[loc[p].user]) = ReferenceBytes(loc[p].user)

\* C10: whenever no request is in progress, every owner's stats row equals a
\* fresh recount of the owner's files.
C10_StatsAreFresh ==
    Quiescent =>
        \A u \in Users :
            stats[u] = [original_storage_used |-> LogicalBytes(u),
                        total_storage_used |-> PhysicalBytes(u),
                        file_count |-> Cardinality(OwnedBy(u))]

ActsFor(p) == IF pc[p] = "idle" THEN loc'[p].user ELSE loc[p].user

\* worker p takes up a delete of file i, asked by somebody else than its owner
StartsForeignDelete(p, i) ==
    /\ pc[p] = "idle"
    /\ pc'[p] # "idle"
    /\ loc'[p].op = "destroy"
    /\ loc'[p].instance.id = i
    /\ loc'[p].user # files[i].user_id

C11_Steps ==
    \A p \in Procs :
        /\ \A i \in Ids :
            StartsForeignDelete(p, i) =>
                /\ pc'[p] = "done"
                /\ loc'[p].status = "Unauthorized"
                /\ UNCHANGED db
        /\ pc[p] = "done" /\ loc[p].status = "Unauthorized" => UNCHANGED db

\* C11: a delete asked by somebody else than the file's owner is answered
\* Unauthorized at once, and neither that step nor the return of the answer
\* changes a file record, a blob, a metadata record, a reference_count or a
\* stats row.
C11_UnauthorizedChangesNothing == [][C11_Steps]_vars

\* C11 witness: owner 2 has asked to delete a file of owner 1 that has a
\* reference, and was answered Unauthorized; both files are still there.
C11_Witness ==
    \E p \in Procs :
        /\ pc[p] = "done"
        /\ loc[p].op = "destroy"
        /\ loc[p].status = "Unauthorized"
        /\ loc[p].user = 2
        /\ loc[p].instance.id \in Ids
        /\ files[loc[p].instance.id].user_id = 1
        /\ files[loc[p].instance.id].reference_count = 1
        /\ ReferencesTo(loc[p].instance.id) # {}

C12_Steps ==
    \A p \in Procs :
        /\ \A i \in Ids :
            StartsDelete(p, i) /\ files[i].is_reference =>
                pc'[p] = "destroy_original" /\ UNCHANGED db
        /\ pc[p] # "idle" /\ loc[p].op = "destroy" /\ loc[p].instance.is_reference =>
            LET i == loc[p].instance.id
                t == loc[p].instance.original_file
            IN  /\ UNCHANGED <<blobs, removed>>
                /\ IF pc[p] = "destroy_decrement"
                   THEN /\ files' = [files EXCEPT ![t].reference_count = @ - 1]
                        /\ files'[t].reference_count >= 0
                        /\ pc'[p] = "destroy_delete"
                        /\ UNCHANGED metadata
                   ELSE IF pc[p] = "destroy_delete"
                   THEN /\ files' = Restrict(files, {i})
                        /\ metadata' = Restrict(metadata, {i})
                   ELSE UNCHANGED <<files, metadata>>

\* C12: with requests run one at a time, the delete of a reference file takes
\* exactly one off the reference_count of its original, which stays at or
\* above 0, and removes the reference's record and its metadata record only:
\* no step of the delete touches a blob, another field of the original, or
\* the record or metadata of any other file.
C12_DeleteReference == [][C12_Steps]_vars

\* C12 witness: one of the two references to file 1 has been deleted; file 1,
\* its blob and its other reference are there and the count is 1.
C12_Witness ==
    \E p \in Procs :
        /\ pc[p] = "done"
        /\ loc[p].op = "destroy"
        /\ loc[p].status = "NoContent"
        /\ loc[p].instance.is_reference
        /\ loc[p].instance.original_file = 1
        /\ loc[p].instance.id \notin Ids
        /\ 1 \in Ids
        /\ files[1].reference_count = 1
        /\ files[1].file \in blobs
        /\ Cardinality(ReferencesTo(1)) = 1

\* the owners worker p serves: worker 1 owner 1, worker 2 all the others
Served(p) == IF p = 1 THEN {1} ELSE IF p = 2 THEN Users \ {1} ELSE {}

\* The requests of owner 1 interleave with those of the other owners at
\* their database statements; no owner has two requests in progress.
NextOwners ==
    \/ \E p \in Procs : Step(p, Served(p), BasicEnvironments)
    \/ \E p \in Procs : \E u \in Served(p) : StorageStats(p, u)

SpecOwners == Init /\ [][NextOwners]_vars

\* The uploads, deletes, task runs and sweeps of owner 1, one at a time, in
\* every environment.
NextEnrich ==
    \/ Step(1, {1}, Environments)
    \/ TaskStep(1, {1}, Environments)
    \/ \E env \in {Good, Fault}, query \in Queries : SmartSearch(1, 1, env, query)

SpecEnrich == Init /\ [][NextEnrich]_vars

\* semantic_search on every candidate list of the bounds
NextSearch ==
    \/ SemanticSearch(1)
    \/ Return(1)

SpecSearch == Init /\ [][NextSearch]_vars

C13_Steps ==
    \A p \in Procs :
        pc[p] # pc'[p] =>
            \A b \in Users \ {ActsFor(p)} :
                /\ OwnedBy(b)' = OwnedBy(b)
                /\ \A i \in OwnedBy(b) :
                    /\ files'[i] = files[i]
                    /\ (files[i].file \in blobs) = (files[i].file \in blobs')
                    /\ removed'[files[i].file] = removed[files[i].file]
                    /\ (i \in DOMAIN metadata) = (i \in DOMAIN metadata')
                    /\ i \in DOMAIN metadata => metadata'[i] = metadata[i]
                /\ stats'[b] = stats[b]

C13_OwnOriginal ==
    \A j \in Ids :
        files[j].is_reference =>
            /\ files[j].original_file \in Ids
            /\ files[files[j].original_file].user_id = files[j].user_id

\* C13: with the requests of owner 1 running in parallel with those of the
\* other owners, no step of an upload, a delete or a
\* stats request made for owner A changes the set of files of another owner
\* B, any of B's file records, metadata records or blobs, or B's stats row;
\* and every reference file points to a file of its own owner.
C13_OwnersAreIndependent == [][C13_Steps]_vars /\ []C13_OwnOriginal

\* C13 witness: both owners have uploaded the same bytes; each has a
\* canonical file of its own, and owner 2 has a reference to its own.
C13_Witness ==
    /\ Quiescent
    /\ \E i, j, k \in Ids :
        /\ files[i].user_id = 1
        /\ files[j].user_id = 2
        /\ files[k].user_id = 2
        /\ files[i].file_hash = files[j].file_hash
        /\ ~files[i].is_reference
        /\ ~files[j].is_reference
        /\ files[k].is_reference
        /\ files[k].original_file = j

\* worker p starts a run of process_file_with_ai on file i, asked for by
\* itself or as the next file of a sweep
RunsTaskOn(p, i) ==
    \/ /\ pc[p] = "idle"
       /\ pc'[p] # "idle"
       /\ loc'[p].op = "process_file_with_ai"
       /\ loc'[p].instance.id = i
    \/ /\ pc[p] = "sweep_next"
       /\ loc[p].batch # <<>>
       /\ Head(loc[p].batch) = i
       /\ loc'[p] # loc[p]

C14_Steps ==
    \A p \in Procs :
        /\ \A i \in Ids :
            RunsTaskOn(p, i) /\ files[i].ai_processed =>
                /\ pc'[p] \in {"done", "sweep_next"}
                /\ loc'[p].status = "Skipped"
                /\ UNCHANGED db
        /\ pc[p] = "done" /\ loc[p].status = "Skipped" => UNCHANGED db

\* C14: a run of process_file_with_ai on a file whose ai_processed is set
\* returns at once: it reaches neither the processor nor an INSERT, and the
\* file's record (its flags among it) and every metadata record are as they
\* were.
C14_ProcessedIsSkipped == [][C14_Steps]_vars

\* C14 witness: the task was run on a canonical file that was processed with
\* an analysed answer, and has returned; the file has its metadata record.
C14_Witness ==
    \E p \in Procs :
        /\ pc[p] = "done"
        /\ loc[p].op = "process_file_with_ai"
        /\ loc[p].status = "Skipped"
        /\ loc[p].instance.id \in DOMAIN metadata
        /\ metadata[loc[p].instance.id].category = "Work Documents"
        /\ files[loc[p].instance.id].ai_processed
        /\ ~files[loc[p].instance.id].is_reference

\* extraction gave nothing usable, or the call of the model failed, timed out
\* or gave a reply that cannot be parsed
Degraded(env) ==
    \/ env.extract \in {"empty", "none"}
    \/ env.reply \in {"garbage", "error"}
    \/ validate_metadata(env.answer).raised

C15_Steps ==
    \A p \in Procs :
        LET i == loc[p].instance.id IN
        /\ /\ pc[p] \in {"create_enrich", "task_enrich"}
           /\ pc'[p] # pc[p]
           /\ ~loc[p].instance.is_reference
           /\ ~loc'[p].env.fault
           /\ Degraded(loc'[p].env)
           => /\ pc'[p] \in {"create_processed", "task_processed"}
              /\ i \notin DOMAIN metadata
              /\ i \in DOMAIN metadata'
              /\ metadata'[i].category = "Other"
              /\ metadata'[i].tags = 0
              /\ metadata'[i].entities = 0
              /\ metadata'[i].key_info = 0
              /\ metadata'[i].confidence_score = 0
        /\ /\ pc[p] \in {"create_processed", "task_processed"}
           /\ pc'[p] # pc[p]
           /\ ~loc[p].instance.is_reference
           => /\ pc'[p] \in {"done", "sweep_next"}
              /\ loc'[p].status \in {"Created", "Processed"}
              /\ files'[i].ai_processed
              /\ files'[i].ai_processing_failed = files[i].ai_processing_failed
              /\ pc[p] = "create_processed" => ~files'[i].ai_processing_failed
              /\ UNCHANGED metadata

\* C15: with requests run one at a time, a run of the processor on a
\* canonical file in which extraction gives nothing usable, or the call of
\* the model raises, times out or gives a reply that cannot be parsed,
\* INSERTs a metadata record with category Other, no tags, entities or
\* key_info and confidence 0, and the step after it sets ai_processed and
\* leaves ai_processing_failed as it was, which for an upload is unset.
C15_DegradesToDefault == [][C15_Steps]_vars

\* C15 witness: an upload whose analysis reply could not be parsed was
\* answered Created; the file is processed, not failed, and its metadata is
\* the default with the 58 characters of "Analysis failed: ..." as summary.
C15_Witness ==
    \E p \in Procs :
        /\ pc[p] = "done"
        /\ loc[p].op = "create"
        /\ loc[p].status = "Created"
        /\ loc[p].instance.id \in DOMAIN metadata
        /\ metadata[loc[p].instance.id].summary = 58
        /\ metadata[loc[p].instance.id].category = "Other"
        /\ metadata[loc[p].instance.id].confidence_score = 0
        /\ files[loc[p].instance.id].ai_processed
        /\ ~files[loc[p].instance.id].ai_processing_failed

C16_Steps ==
    \A p \in Procs :
        LET i == loc[p].instance.id
            u == loc[p].user
        IN
        /\ pc[p] = "create_quota" /\ pc'[p] = "create_file" =>
            PhysicalBytes(u) + SizeOf(loc[p].content) <= STORAGE_QUOTA_BYTES
        /\ pc[p] = "create_file" /\ pc'[p] # pc[p] =>
            /\ pc'[p] = "stats_read"
            /\ nextId \in DOMAIN files'
            /\ nextId \in blobs'
        /\ loc[p].op = "create" /\ ~loc[p].instance.is_reference =>
            /\ pc[p] = "stats_read" => pc'[p] = "stats_save"
            /\ pc[p] = "stats_save" /\ pc'[p] # pc[p] => pc'[p] = "create_enrich"
            /\ pc[p] = "create_enrich" /\ pc'[p] # pc[p] =>
                IF loc'[p].env.fault
                THEN pc'[p] = "create_failed" /\ UNCHANGED db
                ELSE pc'[p] = "create_processed"
            /\ pc[p] = "create_failed" /\ pc'[p] # pc[p] =>
                /\ pc'[p] = "done"
                /\ loc'[p].status = "Created"
                /\ loc'[p].instance = files'[i]
                /\ files' = [files EXCEPT ![i].ai_processing_failed = TRUE]
                /\ ~files'[i].ai_processed
                /\ files'[i].file \in blobs
                /\ i \notin DOMAIN metadata
                /\ UNCHANGED <<blobs, metadata, stats, removed>>
                /\ stats[u].file_count = Cardinality(OwnedBy(u))
                /\ stats[u].original_storage_used = LogicalBytes(u)
                /\ stats[u].total_storage_used = PhysicalBytes(u)

\* C16: with requests run one at a time, an upload of new content that
\* passes the quota check stores the file and its blob and goes on to the
\* enrichment whatever happens; when the enrichment raises, the upload is
\* still answered Created with the stored file, the file is marked failed
\* and not processed, no metadata record is written, the blob stays, and the
\* owner's stats row counts the file.
C16_UploadSurvivesEnrichment == [][C16_Steps]_vars

\* C16 witness: the upload that filled the quota was answered Created after
\* its enrichment raised; the file is failed, without metadata, and counted.
C16_Witness ==
    \E p \in Procs :
        /\ pc[p] = "done"
        /\ loc[p].op = "create"
        /\ loc[p].status = "Created"
        /\ loc[p].instance.id \in Ids
        /\ files[loc[p].instance.id].ai_processing_failed
        /\ ~files[loc[p].instance.id].ai_processed
        /\ loc[p].instance.id \notin DOMAIN metadata
        /\ loc[p].instance.file \in blobs
        /\ stats[loc[p].user].file_count = 1
        /\ stats[loc[p].user].total_storage_used = STORAGE_QUOTA_BYTES

\* C17: in every state, no worker is about to run the processor on a
\* reference file, and the metadata record of a reference file, when it has
\* one, is the copy of the record of its original.
C17_ReferencesBypassEnrichment ==
    /\ \A p \in Procs :
        pc[p] \in {"create_enrich", "task_enrich"} => ~loc[p].instance.is_reference
    /\ \A j \in Ids :
        files[j].is_reference /\ j \in DOMAIN metadata =>
            /\ files[j].original_file \in DOMAIN metadata
            /\ metadata[j] = CopyOf(metadata[files[j].original_file])

\* C18: in every state, every metadata record has a category of CATEGORIES,
\* at most 10 tags and a summary of at most 500 characters.
C18_MetadataWithinLimits ==
    \A i \in DOMAIN metadata :
        /\ metadata[i].category \in CATEGORIES
        /\ metadata[i].tags <= 10
        /\ metadata[i].summary <= 500

\* C19: when smart_search has answered an owner whose processed files are A,
\* with a summary at cosine 0.9 of the query, and B, with one at 0.1, the
\* answer is file A alone, with relevance score 0.9.
C19_SearchFindsTheNearFile ==
    \A p \in Procs :
        /\ pc[p] = "done"
        /\ loc[p].op = "smart_search"
        /\ loc[p].status = "Ok"
        /\ loc[p].query # 0
        =>
        \A A, B \in DOMAIN metadata :
            /\ {i \in Ids : files[i].user_id = loc[p].user /\ files[i].ai_processed} = {A, B}
            /\ cosine_similarity(encode(loc[p].query), encode(metadata[A].summary)) = 90
            /\ cosine_similarity(encode(loc[p].query), encode(metadata[B].summary)) = 10
            => loc[p].results = <<[file_id |-> A, relevance_score |-> 90]>>

\* the places of the candidates that have an embedding and a score of 0.3 or
\* more
Qualifying(query, candidates) ==
    {k \in 1..Len(candidates) :
        /\ candidates[k].embedding # None
        /\ cosine_similarity(encode(query), candidates[k].embedding) >= 30}

\* candidate a ranks before candidate b: a higher score, or the same score
\* and an earlier place
RanksBefore(query, candidates, a, b) ==
    LET sa == cosine_similarity(encode(query), candidates[a].embedding)
        sb == cosine_similarity(encode(query), candidates[b].embedding)
    IN  sa > sb \/ (sa = sb /\ a < b)

\* C20: when semantic_search has run with the embedding model loaded and
\* encoding and a query that is not empty, every result is a candidate that has an
\* embedding and a score of 0.3 or more, with that score; the results are in
\* falling order of score, equal scores in the order of the candidates;
\* there are 10 of them, or all the qualifying candidates when those are
\* fewer; and every qualifying candidate left out ranks behind every result.
C20_SearchRanksTheTopTen ==
    \A p \in Procs :
        /\ pc[p] = "done"
        /\ loc[p].op = "semantic_search"
        /\ loc[p].env.embedder
        /\ loc[p].env.encodes
        /\ loc[p].query # 0
        =>
        LET c == loc[p].user_files_metadata
            r == loc[p].results
            q == loc[p].query
            Q == Qualifying(q, c)
            found == {r[j].file_id : j \in 1..Len(r)}
        IN  /\ Len(r) = Min(10, Cardinality(Q))
            /\ Cardinality(found) = Len(r)
            /\ \A j \in 1..Len(r) :
                /\ r[j].file_id \in Q
                /\ r[j].relevance_score =
                       cosine_similarity(encode(q), c[r[j].file_id].embedding)
            /\ \A j, k \in 1..Len(r) :
                j < k => RanksBefore(q, c, r[j].file_id, r[k].file_id)
            /\ \A k \in Q \ found :
                \A j \in 1..Len(r) : RanksBefore(q, c, r[j].file_id, k)

\* C20 witness: of 12 candidates, six at 0.9 and six at 0.3 in turn, the ten
\* results are the six at 0.9 and the first four at 0.3; candidates 9 and 11
\* are left out.
C20_Witness ==
    \E p \in Procs :
        /\ pc[p] = "done"
        /\ loc[p].op = "semantic_search"
        /\ Len(loc[p].user_files_metadata) = 12
        /\ Cardinality(Qualifying(loc[p].query, loc[p].user_files_metadata)) = 12
        /\ Len(loc[p].results) = 10
        /\ loc[p].results[1] = [file_id |-> 2, relevance_score |-> 90]
        /\ loc[p].results[7] = [file_id |-> 1, relevance_score |-> 30]
        /\ loc[p].results[10] = [file_id |-> 7, relevance_score |-> 30]

\* C21: semantic_search answers with an empty list, and never with an error,
\* when the embedding model is not loaded, when the embedding of the query
\* cannot be computed (an empty query, an encode that raises), when the list
\* of candidates is empty and when no candidate carries an embedding.
C21_SearchDegradesToEmpty ==
    \A p \in Procs :
        (pc[p] = "done" /\ loc[p].op = "semantic_search") =>
            LET l == loc[p]
                c == l.user_files_metadata
            IN  /\ l.status = "Ok"
                /\ (\/ ~l.env.embedder
                    \/ ~l.env.encodes
                    \/ l.query = 0
                    \/ c = <<>>
                    \/ \A k \in 1..Len(c) : Get(c[k], "embedding", None) = None)
                   => l.results = <<>>

\* a search that would have had results, had the query been embedded
C21_Witness ==
    \E p \in Procs :
        /\ pc[p] = "done" /\ loc[p].op = "semantic_search"
        /\ loc[p].env.embedder /\ ~loc[p].env.encodes /\ loc[p].query # 0
        /\ \E k \in 1..Len(loc[p].user_files_metadata) :
               Get(loc[p].user_files_metadata[k], "embedding", None) = <<9, 3, 3, 1>>
        /\ loc[p].results = <<>>

\* the steps that complete the enrichment an upload started
CompletesEnrichment(p) ==
    /\ pc[p] \in {"create_enrich", "create_processed", "create_failed"}
    /\ pc'[p] # pc[p]

C22_Steps ==
    \A p \in Procs :
        LET i == loc[p].instance.id IN
        (CompletesEnrichment(p) /\ i \in Ids /\ ~files[i].is_reference) =>
            /\ Ids' = Ids
            /\ \A j \in Ids \ {i} : files'[j] = files[j]
            /\ files'[i] = [files[i] EXCEPT
                               !.ai_processed = files'[i].ai_processed,
                               !.ai_processing_failed = files'[i].ai_processing_failed]
            /\ files'[i].reference_count = files[i].reference_count
            /\ \A j \in DOMAIN metadata : j \in DOMAIN metadata' /\ metadata'[j] = metadata[j]
            /\ DOMAIN metadata' \subseteq DOMAIN metadata \cup {i}
            /\ UNCHANGED <<blobs, stats, removed, nextId>>

\* C22: the steps that complete the enrichment of a canonical file write the
\* metadata record, the processed flag and the failure flag of that file and
\* nothing else; the reference count of the file is the same after the step
\* as before it, so a reference counted while the enrichment was running is
\* still counted.
C22_EnrichmentWritesItsOwnFields == [][C22_Steps]_vars

\* ---------------------------------------------------------- interruption
\* The worker process dies between two statements of process_file_with_ai
\* (tasks.py:27-97): what it has written stays, what it had still to write
\* is not written, and no except branch runs.
Crash(p) ==
    /\ pc[p] \in {"task_copy", "task_enrich", "task_processed", "task_failed"}
    /\ loc' = [loc EXCEPT ![p] = Response(loc[p], "Crashed")]
    /\ Goto(p, "done")
    /\ UNCHANGED <<files, nextId, blobs, metadata, stats, removed>>

\* One owner, one worker at a time, and runs of the task that may die.
NextCrash ==
    \/ Step(1, {1}, BasicEnvironments)
    \/ TaskStep(1, {1}, BasicEnvironments)
    \/ Crash(1)

SpecCrash == Init /\ [][NextCrash]_vars

\* after an interrupted run the file is unprocessed and has no metadata record
C23_Interrupted ==
    \A p \in Procs :
        (pc[p] = "done" /\ loc[p].status = "Crashed" /\ loc[p].instance.id \in Ids) =>
            LET i == loc[p].instance.id IN
            /\ ~files[i].ai_processed
            /\ i \notin DOMAIN metadata

\* a run of the task whose processor meets no fault does not fail
C23_Steps ==
    \A p \in Procs :
        (pc[p] = "task_enrich" /\ pc'[p] = "task_failed") => loc'[p].env.fault

\* C23: when a run of the enrichment is interrupted between two of its steps,
\* the file is unprocessed and has no metadata record, and a later run on it
\* completes: it does not fail unless its processor meets a fault of its own,
\* and it leaves the file processed with its one metadata record.
C23_InterruptionIsInvisible == [][C23_Steps]_vars /\ []C23_Interrupted

\* ------------------------------------------------- concurrent enrichment
\* One step of worker p on an upload (views.py:110-206).
Upload(p, U, E) ==
    \/ \E u \in U, c \in Contents : CreateLookup(p, u, c)
    \/ CreateReference(p)
    \/ CreateIncrement(p)
    \/ CreateCopyMetadata(p)
    \/ CreateReferenceSave(p)
    \/ CreateQuota(p)
    \/ CreateFile(p)
    \/ CreateEnrich(p, E)
    \/ CreateProcessed(p)
    \/ CreateFailed(p)
    \/ StatsRead(p)
    \/ StatsSave(p)
    \/ Return(p)

\* The uploads of one owner, one at a time, with runs of the task and of
\* the sweep beside them, on two workers; the processor meets no fault, so
\* whatever fails, fails because two runs met on one file.
NextRace ==
    \/ Upload(1, {1}, {Good})
    \/ TaskStep(1, {1}, {Good})
    \/ TaskStep(2, {1}, {Good})

SpecRace == Init /\ [][NextRace]_vars

\* the workers that hold an instance of file i and have still to write
InFlight(i) ==
    {p \in Procs : pc[p] \notin {"idle", "done", "sweep_next"} /\ loc[p].instance.id = i}

\* C24: when no fault is met, every file that no worker is still working on
\* is processed, is not marked failed and has its one metadata record,
\* however the runs of the enrichment on it were interleaved.
C24_EnrichedOnceWhateverTheOrder ==
    \A i \in Ids :
        InFlight(i) = {} =>
            /\ files[i].ai_processed
            /\ ~files[i].ai_processing_failed
            /\ i \in DOMAIN metadata

C25_Steps ==
    \A p \in Procs :
        LET i == loc[p].instance.id IN
        (/\ pc[p] \in {"create_enrich", "task_enrich"}
         /\ i \notin DOMAIN metadata
         /\ i \in DOMAIN metadata') =>
            /\ (metadata'[i].summary # 0 /\ loc'[p].env.embedder /\ loc'[p].env.encodes)
                   => metadata'[i].embedding # None
            /\ metadata'[i].embedding = None
                   => (metadata'[i].summary = 0 \/ ~loc'[p].env.embedder \/ ~loc'[p].env.encodes)

\* C25: the metadata record that a run of the enrichment inserts carries an
\* embedding whenever its summary is not empty and the embedding model is
\* loaded and encodes; its embedding is absent only without a summary or
\* without the model.
C25_SummaryIsEmbedded == [][C25_Steps]_vars

\* the uploads answered with a reference to an original that has a metadata record
AnsweredWithCopy ==
    {p \in Procs : /\ pc[p] = "done"
                   /\ loc[p].op = "create"
                   /\ loc[p].status = "Created"
                   /\ loc[p].instance.is_reference
                   /\ loc[p].instance.original_file \in DOMAIN metadata}

\* C26: an upload answered with a reference to an original that has a
\* metadata record leaves the reference with a metadata record of its own,
\* equal to the original's in every field, and marked processed; and no
\* upload is about to run the processor on a reference.
C26_ReferenceCopiesMetadata ==
    /\ \A p \in AnsweredWithCopy :
        LET n == loc[p].instance IN
        /\ n.id \in DOMAIN metadata
        /\ \A f \in {"category", "subcategory", "summary", "tags", "entities",
                     "key_info", "embedding", "confidence_score"} :
               metadata[n.id][f] = metadata[n.original_file][f]
        /\ files[n.id].ai_processed
        /\ ~files[n.id].ai_processing_failed
    /\ \A p \in Procs : pc[p] = "create_enrich" => ~loc[p].instance.is_reference

\* a reference to an analysed original, with the original's three tags
C26_Witness ==
    \E p \in AnsweredWithCopy :
        /\ metadata[loc[p].instance.id].tags = 3
        /\ metadata[loc[p].instance.id].summary = 120

C27_Steps ==
    \A p \in Procs :
        LET i == loc[p].instance.id IN
        (/\ pc[p] \in {"create_processed", "task_processed"}
         /\ pc'[p] \in {"done", "sweep_next"}
         /\ ~loc[p].instance.is_reference
         /\ Degraded(loc[p].env)) =>
            /\ i \in DOMAIN metadata'
            /\ metadata'[i].category = "Other"
            /\ files'[i].ai_processing_failed

\* C27: a run of the enrichment in which a step failed and was absorbed into
\* a default metadata record ends with that record persisted and with
\* ai_processing_failed set on the file.
C27_DegradedIsMarkedFailed == [][C27_Steps]_vars

\* C28: in every state, the confidence of every metadata record lies between
\* 0 and 1 (0 and 100 hundredths): a value outside the range that the model
\* answered was brought into it before the record was written.
C28_ConfidenceIsAFraction ==
    \A i \in DOMAIN metadata :
        /\ metadata[i].confidence_score >= 0
        /\ metadata[i].confidence_score <= 100

\* ------------------------------------------------------- the repeated sweep
\* One owner and one worker: uploads, deletes, runs of the task and sweeps,
\* one at a time.
NextSweep ==
    \/ Step(1, {1}, BasicEnvironments)
    \/ TaskStep(1, {1}, BasicEnvironments)

\* whatever the worker has started, it goes on with
Running == pc[1] # "idle" /\ NextSweep

\* a sweep of the files of all owners starts
SweepStarts == \E limit \in Limits : SweepQuery(1, 0, limit)

\* The sweep is run again and again: a request that has started runs to its
\* end, and between the requests the sweep gets its turn.
SpecSweep ==
    Init /\ [][NextSweep]_vars /\ WF_vars(Running) /\ SF_vars(SweepStarts)

\* file i is stored and neither processed nor failed
IsUnprocessed(i) ==
    i \in Ids /\ ~files[i].ai_processed /\ ~files[i].ai_processing_failed

C29_Steps ==
    \A p \in Procs :
        /\ (pc[p] = "idle" /\ pc'[p] = "sweep_next") =>
               \A k \in 1..Len(loc'[p].batch) : IsUnprocessed(loc'[p].batch[k])
        /\ (loc[p].op = "batch_process_unprocessed_files" \/ pc'[p] = "sweep_next") =>
               \A i \in Ids :
                   files[i].ai_processing_failed =>
                       /\ i \in Ids'
                       /\ files'[i] = files[i]
                       /\ (i \in DOMAIN metadata') = (i \in DOMAIN metadata)

C30_ProcessedExcludesFailed ==
    \A i \in Ids : ~(files[i].ai_processed /\ files[i].ai_processing_failed)

\* the workers that have inserted the metadata record of file i and have
\* still to save its flag
BetweenRecordAndFlag(i) ==
    {p \in Procs : /\ pc[p] \in {"create_reference_save", "create_processed",
                                 "task_processed"}
                   /\ loc[p].instance.id = i}

C31_State ==
    /\ DOMAIN metadata \subseteq Ids
    /\ \A i \in Ids :
        /\ files[i].ai_processed => i \in DOMAIN metadata
        /\ (i \in DOMAIN metadata /\ ~files[i].ai_processed) =>
               BetweenRecordAndFlag(i) # {}

C31_Steps ==
    \A i \in Ids :
        /\ (i \in Ids' /\ i \in DOMAIN metadata) =>
               (i \in DOMAIN metadata' /\ metadata'[i] = metadata[i])
        /\ (i \in Ids' /\ files'[i].ai_processed /\ ~files[i].ai_processed) =>
               i \in DOMAIN metadata

\* C31: with requests run one at a time, in every state a processed file has
\* a metadata record, and a file with a metadata record is processed unless
\* the request that inserted the record has still to save the flag; the
\* record is there before the flag is set, and no step removes or rewrites
\* the record of a file that stays.
C31_ProcessedIffMetadata == [][C31_Steps]_vars /\ []C31_State

\* an explicit run of the task has processed a file; beside it stands a
\* failed file, unprocessed and without a record
C31_Witness ==
    \E p \in Procs :
        /\ pc[p] = "done"
        /\ loc[p].op = "process_file_with_ai"
        /\ loc[p].status = "Processed"
        /\ loc[p].instance.id \in DOMAIN metadata
        /\ files[loc[p].instance.id].ai_processed
        /\ \E j \in Ids : /\ ~files[j].ai_processed
                          /\ files[j].ai_processing_failed
                          /\ j \notin DOMAIN metadata

====
